---- MODULE Spec2Model ----
(***************************************************************************)
(* ThinkTwice: the React front end (frontend/src/App.js) and the part of   *)
(* the backend it talks to.  The state is the component state of App, the  *)
(* debounce timers the debounce effect has set, the HTTP requests in       *)
(* flight, and the settings record kept by the backend.                    *)
(*                                                                         *)
(* Thresholds and scores are in hundredths (0.5 is 50).  A text is a       *)
(* sequence of one-character strings.  A state setter is applied at once.  *)
(***************************************************************************)
EXTENDS Integers, Sequences, FiniteSets

(* ------------------------------ bounds -------------------------------- *)

\* how many user inputs that restart the debounce (typing, slider, app
\* selection, monitoring toggle) a behaviour contains
MaxEdits == 2
\* how many health checks may be in flight together
MaxHealthChecks == 2
\* how far one step of the clock advances the time, in ms
TickMs == 100

(* ------------------------- program constants -------------------------- *)

DebounceMs == 300
InitialThreshold == 50
LogTextLen == 50
LogKeep == 9

\* the texts the user types: empty, whitespace only, and two messages
Texts == { <<>>, <<" ">>, <<"a">>, <<"b">> }
\* the slider positions used (the slider runs from 10 to 90)
Thresholds == { 40, 50 }
\* SIMULATED_APPS, the first two of the five
Apps == { "Email", "Chat" }

Null == <<>>

VARIABLES
    text,               \* useState('')
    threshold,          \* useState(0.5)
    analysis,           \* useState(null): Null or <<response>>
    loading,            \* useState(false)
    showWarning,        \* useState(false)
    selectedApp,        \* useState(SIMULATED_APPS[0]), by name
    isMonitoring,       \* useState(true)
    monitoringLogs,     \* useState([])
    error,              \* useState(null): Null or <<prefix, message>>
    abortControllerRef, \* useRef(null): 0, or the id of the last controller
    timers,             \* the pending timeouts set by the debounce effect
    requests,           \* POST /api/analyze-text calls awaiting completion
    healthChecks,       \* GET /api/health calls awaiting completion
    settingsPosts,      \* POST /api/user-settings calls in flight, by issue order
    settingsErrorLogged,\* console.error('Error saving settings:') was called
    storeConfigured,    \* the backend has MONGO_URL / DB_NAME
    savedThreshold,     \* the settings record of userId at the backend, 0 if none
    sinceInput,         \* ms since text or threshold last changed, up to DebounceMs
    edits               \* user inputs so far

vars == << text, threshold, analysis, loading, showWarning, selectedApp,
           isMonitoring, monitoringLogs, error, abortControllerRef, timers,
           requests, healthChecks, settingsPosts, settingsErrorLogged,
           storeConfigured, savedThreshold, sinceInput, edits >>

ui == << analysis, showWarning, error, monitoringLogs >>

(* ------------------------------ helpers ------------------------------- *)

Min(a, b) == IF a < b THEN a ELSE b
Max(a, b) == IF a > b THEN a ELSE b

IsSpace(c) == c = " "

\* String.prototype.trim
RECURSIVE TrimStart(_)
TrimStart(s) ==
    IF s # <<>> /\ IsSpace(Head(s)) THEN TrimStart(Tail(s)) ELSE s

RECURSIVE TrimEnd(_)
TrimEnd(s) ==
    IF s # <<>> /\ IsSpace(s[Len(s)]) THEN TrimEnd(SubSeq(s, 1, Len(s) - 1)) ELSE s

Trim(s) == TrimEnd(TrimStart(s))

\* !textToAnalyze.trim()
IsBlank(s) == Trim(s) = <<>>

\* textToAnalyze.slice(0, 50) + (textToAnalyze.length > 50 ? '...' : '')
LogText(s) ==
    SubSeq(s, 1, Min(LogTextLen, Len(s)))
        \o (IF Len(s) > LogTextLen THEN <<".", ".", ".">> ELSE <<>>)

(* ------------------------------ backend ------------------------------- *)

\* the classifier's regret score of a text
ScoreOf(s) ==
    IF s = <<"a">> THEN 40
    ELSE IF s = <<"b">> THEN 50
    ELSE 0

\* a mutant of AnalyzeTextEndpoint: warns only above the threshold
AnalyzeTextEndpointStrict(s, h) ==
    [ regret_score |-> ScoreOf(s), should_warn |-> ScoreOf(s) > h ]

\* POST /api/analyze-text {text, threshold} -> {regret_score, should_warn}
AnalyzeTextEndpoint(s, h) ==
    [ regret_score |-> ScoreOf(s), should_warn |-> ScoreOf(s) >= h ]

(* ------------------------------- axios -------------------------------- *)

\* the name of the error axios rejects with: a request cancelled through its
\* signal is rejected with a CanceledError, any other failure with an AxiosError
AxiosErrorName(kind) ==
    IF kind = "canceled" THEN "CanceledError" ELSE "AxiosError"

\* error.message
AxiosErrorMessage(kind) ==
    CASE kind = "canceled" -> "canceled"
      [] kind = "network"  -> "Network Error"
      [] kind = "timeout"  -> "timeout of 10000ms exceeded"

(* ----------------------- the debounce effect --------------------------- *)

\* a mutant of ClearTimeout: the effect's cleanup does not clear the timer
ClearTimeoutMissing(ts) == ts

\* return () => clearTimeout(debounceTimer)
ClearTimeout(ts) == {}

\* setTimeout(() => analyzeText(text, threshold), 300), with the analyzeText
\* of this render, which closes over selectedApp and isMonitoring
SetTimeout(s, h, a, m) ==
    [ text |-> s, threshold |-> h, app |-> a, isMonitoring |-> m,
      remaining |-> DebounceMs ]

\* the effect runs again when text, threshold or analyzeText changed
DebounceEffect(ts, s, h, a, m) == ClearTimeout(ts) \cup { SetTimeout(s, h, a, m) }

(* --------------------------- analyzeText ------------------------------ *)

Ids == 1 .. (MaxEdits + 3)

\* a controller not referred to by the ref or by a request in flight
NewController ==
    CHOOSE i \in Ids :
        /\ i \notin ({ r.id : r \in requests } \cup { abortControllerRef })
        /\ \A j \in Ids :
              j \notin ({ r.id : r \in requests } \cup { abortControllerRef }) => i <= j

\* a mutant of AbortPrevious: the previous request is left running
AbortPreviousMissing(reqs, ref) == reqs

\* if (abortControllerRef.current) abortControllerRef.current.abort()
AbortPrevious(reqs, ref) ==
    { IF ref # 0 /\ r.id = ref THEN [ r EXCEPT !.aborted = TRUE ] ELSE r : r \in reqs }

\* the abort of a controller rejects its request at once; the rejection is
\* handled before any other event
Settled == \A r \in requests : ~ r.aborted

\* the entry added to the monitoring feed
LogEntry(r, resp) ==
    [ app |-> r.app, text |-> LogText(r.text),
      regretScore |-> resp.regret_score, warned |-> resp.should_warn ]

\* a mutant of PushLog: the slice keeps one entry too many
PushLogSliceTen(entry, prev) ==
    << entry >> \o SubSeq(prev, 1, Min(LogKeep + 1, Len(prev)))

\* [logEntry, ...prev.slice(0, 9)]
PushLog(entry, prev) == << entry >> \o SubSeq(prev, 1, Min(LogKeep, Len(prev)))

(* ------------------------------- Init --------------------------------- *)

\* the state after the first render and its effects: the debounce timer is
\* set and testConnection has issued the health check
Init ==
    /\ text = <<>>
    /\ threshold = InitialThreshold
    /\ analysis = Null
    /\ loading = TRUE
    /\ showWarning = FALSE
    /\ selectedApp = "Email"
    /\ isMonitoring = TRUE
    /\ monitoringLogs = <<>>
    /\ error = Null
    /\ abortControllerRef = 0
    /\ timers = { SetTimeout(<<>>, InitialThreshold, "Email", TRUE) }
    /\ requests = {}
    /\ healthChecks = 1
    /\ settingsPosts = <<>>
    /\ settingsErrorLogged = FALSE
    /\ storeConfigured \in BOOLEAN
    /\ savedThreshold = 0
    /\ sinceInput = 0
    /\ edits = 0

(* ---------------------------- user inputs ----------------------------- *)

backend == << settingsPosts, settingsErrorLogged, storeConfigured, savedThreshold >>

\* onChange={e => setText(e.target.value)}
SetText(s) ==
    /\ Settled
    /\ edits < MaxEdits
    /\ s # text
    /\ text' = s
    /\ timers' = DebounceEffect(timers, s, threshold, selectedApp, isMonitoring)
    /\ sinceInput' = 0
    /\ edits' = edits + 1
    /\ UNCHANGED << threshold, analysis, loading, showWarning, selectedApp,
                    isMonitoring, monitoringLogs, error, abortControllerRef,
                    requests, healthChecks, backend >>

\* handleThresholdChange: setThreshold(newThreshold); saveSettings(newThreshold)
HandleThresholdChange(h) ==
    /\ Settled
    /\ edits < MaxEdits
    /\ h # threshold
    /\ threshold' = h
    /\ settingsPosts' = Append(settingsPosts, h)
    /\ timers' = DebounceEffect(timers, text, h, selectedApp, isMonitoring)
    /\ sinceInput' = 0
    /\ edits' = edits + 1
    /\ UNCHANGED << text, analysis, loading, showWarning, selectedApp,
                    isMonitoring, monitoringLogs, error, abortControllerRef,
                    requests, healthChecks, settingsErrorLogged,
                    storeConfigured, savedThreshold >>

\* onClick={() => setIsMonitoring(!isMonitoring)}: analyzeText is created
\* anew, so the debounce effect runs again
ToggleMonitoring ==
    /\ Settled
    /\ edits < MaxEdits
    /\ isMonitoring' = ~ isMonitoring
    /\ timers' = DebounceEffect(timers, text, threshold, selectedApp, ~ isMonitoring)
    /\ edits' = edits + 1
    /\ UNCHANGED << text, threshold, analysis, loading, showWarning, selectedApp,
                    monitoringLogs, error, abortControllerRef, requests,
                    healthChecks, backend, sinceInput >>

\* onChange={(e) => setSelectedApp(...)}: analyzeText is created anew
SelectApp(a) ==
    /\ Settled
    /\ edits < MaxEdits
    /\ a # selectedApp
    /\ selectedApp' = a
    /\ timers' = DebounceEffect(timers, text, threshold, a, isMonitoring)
    /\ edits' = edits + 1
    /\ UNCHANGED << text, threshold, analysis, loading, showWarning,
                    isMonitoring, monitoringLogs, error, abortControllerRef,
                    requests, healthChecks, backend, sinceInput >>

\* the Retry button of the error banner: testConnection
Retry ==
    /\ Settled
    /\ error # Null
    /\ healthChecks < MaxHealthChecks
    /\ loading' = TRUE
    /\ healthChecks' = healthChecks + 1
    /\ UNCHANGED << text, threshold, analysis, showWarning, selectedApp,
                    isMonitoring, monitoringLogs, error, abortControllerRef,
                    timers, requests, backend, sinceInput, edits >>

(* ------------------------------- time --------------------------------- *)

Tick ==
    /\ Settled
    /\ timers' = { [ tm EXCEPT !.remaining = Max(0, tm.remaining - TickMs) ] : tm \in timers }
    /\ sinceInput' = Min(DebounceMs, sinceInput + TickMs)
    /\ UNCHANGED << text, threshold, analysis, loading, showWarning, selectedApp,
                    isMonitoring, monitoringLogs, error, abortControllerRef,
                    requests, healthChecks, backend, edits >>

(* ------------------- analyzeText, up to the await --------------------- *)

\* the timer fires with a text that is empty after trim: lines 44-49
FireDebounceBlank(tm) ==
    /\ Settled
    /\ tm \in timers
    /\ tm.remaining = 0
    /\ IsBlank(tm.text)
    /\ timers' = timers \ { tm }
    /\ analysis' = Null
    /\ showWarning' = FALSE
    /\ error' = Null
    /\ UNCHANGED << text, threshold, loading, selectedApp, isMonitoring,
                    monitoringLogs, abortControllerRef, requests, healthChecks,
                    backend, sinceInput, edits >>

\* the timer fires with any other text: lines 51-69
FireDebounceRequest(tm) ==
    /\ Settled
    /\ tm \in timers
    /\ tm.remaining = 0
    /\ ~ IsBlank(tm.text)
    /\ timers' = timers \ { tm }
    /\ requests' = AbortPrevious(requests, abortControllerRef) \cup
                   { [ id |-> NewController, text |-> tm.text,
                       threshold |-> tm.threshold, app |-> tm.app,
                       isMonitoring |-> tm.isMonitoring, aborted |-> FALSE ] }
    /\ abortControllerRef' = NewController
    /\ loading' = TRUE
    /\ error' = Null
    /\ UNCHANGED << text, threshold, analysis, showWarning, selectedApp,
                    isMonitoring, monitoringLogs, healthChecks, backend,
                    sinceInput, edits >>

(* ------------------ analyzeText, after the await ---------------------- *)

FailureKinds == { "network", "timeout" }

\* a mutant of ResponseWarning: the warning is not updated with the response
ResponseWarningKept(resp) == showWarning

\* setShowWarning(response.data.should_warn)
ResponseWarning(resp) == resp.should_warn

\* a mutant of Ignored: every rejection is taken for a cancellation
IgnoredAlways(kind) == TRUE

\* if (error.name === 'AbortError') return
Ignored(kind) == AxiosErrorName(kind) = "AbortError"

\* a mutant of Finally: loading is left as it is
FinallyMissing(l) == l

\* finally { setLoading(false) }
Finally(l) == FALSE

\* the catch block and the finally block, for a rejection of the given kind
Catch(kind) ==
    /\ IF Ignored(kind)
         THEN UNCHANGED << error, analysis, showWarning >>
         ELSE /\ error' = << "Analysis failed", AxiosErrorMessage(kind) >>
              /\ analysis' = Null
              /\ showWarning' = FALSE
    /\ loading' = Finally(loading)
    /\ UNCHANGED monitoringLogs

\* the response arrives: lines 71-84 and the finally block
RequestSucceeds(r) ==
    /\ Settled
    /\ r \in requests
    /\ requests' = requests \ { r }
    /\ LET resp == AnalyzeTextEndpoint(r.text, r.threshold) IN
          /\ analysis' = << resp >>
          /\ showWarning' = ResponseWarning(resp)
          /\ monitoringLogs' = IF r.isMonitoring
                                 THEN PushLog(LogEntry(r, resp), monitoringLogs)
                                 ELSE monitoringLogs
    /\ loading' = Finally(loading)
    /\ UNCHANGED << text, threshold, selectedApp, isMonitoring, error,
                    abortControllerRef, timers, healthChecks, backend,
                    sinceInput, edits >>

\* the request fails with a network error or runs into the 10 s timeout
RequestFails(r, kind) ==
    /\ Settled
    /\ r \in requests
    /\ kind \in FailureKinds
    /\ requests' = requests \ { r }
    /\ Catch(kind)
    /\ UNCHANGED << text, threshold, selectedApp, isMonitoring,
                    abortControllerRef, timers, healthChecks, backend,
                    sinceInput, edits >>

\* the rejection of a request whose controller was aborted
RequestCancelled(r) ==
    /\ r \in requests
    /\ r.aborted
    /\ requests' = requests \ { r }
    /\ Catch("canceled")
    /\ UNCHANGED << text, threshold, selectedApp, isMonitoring,
                    abortControllerRef, timers, healthChecks, backend,
                    sinceInput, edits >>

(* -------------------------- testConnection ---------------------------- *)

\* a mutant of HealthOk: the banner is left as it is
HealthOkKept(e) == e

\* console.log('API Health:', response.data); setError(null)
HealthOk(e) == Null

\* GET /api/health answers: setError(null), and the finally block
HealthSucceeds ==
    /\ Settled
    /\ healthChecks > 0
    /\ healthChecks' = healthChecks - 1
    /\ error' = HealthOk(error)
    /\ loading' = FALSE
    /\ UNCHANGED << text, threshold, analysis, showWarning, selectedApp,
                    isMonitoring, monitoringLogs, abortControllerRef, timers,
                    requests, backend, sinceInput, edits >>

\* GET /api/health fails: the catch block, and the finally block
HealthFails ==
    /\ Settled
    /\ healthChecks > 0
    /\ healthChecks' = healthChecks - 1
    /\ error' = << "Connection failed", AxiosErrorMessage("network") >>
    /\ loading' = FALSE
    /\ UNCHANGED << text, threshold, analysis, showWarning, selectedApp,
                    isMonitoring, monitoringLogs, abortControllerRef, timers,
                    requests, backend, sinceInput, edits >>

(* ---------------------- saveSettings, the backend --------------------- *)

frontend == << text, threshold, analysis, loading, showWarning, selectedApp,
               isMonitoring, monitoringLogs, error, abortControllerRef, timers,
               requests, healthChecks, sinceInput, edits >>

RemoveAt(q, i) == SubSeq(q, 1, i - 1) \o SubSeq(q, i + 1, Len(q))

\* POST /api/user-settings {user_id, threshold}: the record of user_id is
\* replaced
UserSettingsEndpoint(saved, h) == h

\* one of the POSTs in flight reaches the backend and is answered
SaveSettingsDone(i) ==
    /\ Settled
    /\ i \in 1 .. Len(settingsPosts)
    /\ savedThreshold' = UserSettingsEndpoint(savedThreshold, settingsPosts[i])
    /\ settingsPosts' = RemoveAt(settingsPosts, i)
    /\ UNCHANGED << frontend, settingsErrorLogged, storeConfigured >>

\* one of the POSTs in flight fails: console.error('Error saving settings:')
SaveSettingsFails(i) ==
    /\ Settled
    /\ i \in 1 .. Len(settingsPosts)
    /\ settingsErrorLogged' = TRUE
    /\ settingsPosts' = RemoveAt(settingsPosts, i)
    /\ UNCHANGED << frontend, storeConfigured, savedThreshold >>

\* the backend restarts: without a store the settings are in memory only
ServerRestart ==
    /\ Settled
    /\ savedThreshold' = IF storeConfigured THEN savedThreshold ELSE 0
    /\ UNCHANGED << frontend, settingsPosts, settingsErrorLogged, storeConfigured >>

(* ------------------------------- Next --------------------------------- *)

Next ==
    \/ \E s \in Texts : SetText(s)
    \/ \E h \in Thresholds : HandleThresholdChange(h)
    \/ ToggleMonitoring
    \/ \E a \in Apps : SelectApp(a)
    \/ Retry
    \/ Tick
    \/ \E tm \in timers : FireDebounceBlank(tm)
    \/ \E tm \in timers : FireDebounceRequest(tm)
    \/ \E r \in requests : RequestSucceeds(r)
    \/ \E r \in requests, kind \in FailureKinds : RequestFails(r, kind)
    \/ \E r \in requests : RequestCancelled(r)
    \/ HealthSucceeds
    \/ HealthFails
    \/ \E i \in 1 .. Len(settingsPosts) : SaveSettingsDone(i)
    \/ \E i \in 1 .. Len(settingsPosts) : SaveSettingsFails(i)
    \/ ServerRestart

Spec == Init /\ [][Next]_vars

\* the event loop runs a timer that is due, time passes, and every request
\* is answered, fails or times out
LiveSpec ==
    /\ Spec
    /\ WF_vars(Tick)
    /\ WF_vars(\E tm \in timers : FireDebounceBlank(tm) \/ FireDebounceRequest(tm))
    /\ WF_vars(\E r \in requests :
                  \/ RequestSucceeds(r)
                  \/ RequestCancelled(r)
                  \/ \E kind \in FailureKinds : RequestFails(r, kind))
    /\ WF_vars(HealthSucceeds \/ HealthFails)

(* ------------------- a session with a filled log --------------------- *)

\* the most entries the monitoring log holds: the new one and LogKeep kept
LogLimit == LogKeep + 1

\* the log left by n earlier analyses, newest first: the latest of "a" in
\* Email at threshold 50, the earlier ones of varying app, text and threshold
PriorLog(n) ==
    [ i \in 1 .. n |->
        LET s == IF i % 3 = 0 THEN << "b" >> ELSE << "a" >>
            h == IF i % 4 < 2 THEN 50 ELSE 40
            a == IF i % 2 = 0 THEN "Chat" ELSE "Email"
        IN  LogEntry([ app |-> a, text |-> s ], AnalyzeTextEndpoint(s, h)) ]

\* the interface at rest later in a session: the health check was answered,
\* LogKeep or LogLimit analyses were logged, and the last result is displayed
LogInit ==
    /\ text = << "a" >>
    /\ threshold = InitialThreshold
    /\ analysis = << AnalyzeTextEndpoint(<< "a" >>, InitialThreshold) >>
    /\ loading = FALSE
    /\ showWarning = ResponseWarning(AnalyzeTextEndpoint(<< "a" >>, InitialThreshold))
    /\ selectedApp = "Email"
    /\ isMonitoring = TRUE
    /\ \E n \in { LogKeep, LogLimit } : monitoringLogs = PriorLog(n)
    /\ error = Null
    /\ abortControllerRef = 1
    /\ timers = {}
    /\ requests = {}
    /\ healthChecks = 0
    /\ settingsPosts = <<>>
    /\ settingsErrorLogged = FALSE
    /\ storeConfigured \in BOOLEAN
    /\ savedThreshold = InitialThreshold
    /\ sinceInput = DebounceMs
    /\ edits = 0

LogSpec == LogInit /\ [][Next]_vars

(* ------------------------------ claims -------------------------------- *)

\* the step ends the request r: its promise is settled and its handler runs
Completes(r) == r \in requests /\ requests' = requests \ { r }

\* the step issues the request r
Issues(r) == r \in requests' /\ r \notin requests /\ ~ r.aborted

Outstanding == { r \in requests : ~ r.aborted }

\* C1: at most one analysis request that has not been aborted is outstanding
C1_SingleOutstanding == Cardinality(Outstanding) <= 1

\* C1 witness: a new request is outstanding next to the one it aborted
C1_Witness == \E r \in requests, q \in requests : r.aborted /\ ~ q.aborted

\* C2: once the debounce has fired for a newer input (no timer is pending and
\* the current input differs from the request's), the end of the older request
\* changes none of analysis, showWarning, error and the monitoring log
C2_NoStaleUpdate ==
    [][ \A r \in requests :
          ( /\ Completes(r)
            /\ timers = {}
            /\ << r.text, r.threshold >> # << text, threshold >> )
          => UNCHANGED ui ]_vars

\* C3: the end of a cancelled request changes none of analysis, showWarning,
\* error and the monitoring log
C3_CancellationSilent ==
    [][ \A r \in requests : (r.aborted /\ Completes(r)) => UNCHANGED ui ]_vars

\* C4: at most one debounce timer is pending, it is the timer of the current
\* text and threshold and has run no longer than they have been unchanged,
\* and a request is issued only for the current text and threshold once they
\* have been unchanged for 300 ms
C4_Debounce ==
    /\ [] ( /\ Cardinality(timers) <= 1
            /\ \A tm \in timers :
                  /\ tm.text = text
                  /\ tm.threshold = threshold
                  /\ tm.remaining + sinceInput >= DebounceMs )
    /\ [][ \A r \in requests' :
              Issues(r) => /\ r.text = text
                           /\ r.threshold = threshold
                           /\ sinceInput >= DebounceMs ]_vars

\* C4 witness: the text was replaced while a request for the earlier text is
\* outstanding, and the new timer has not run yet
C4_Witness ==
    /\ \E tm \in timers : tm.remaining = DebounceMs
    /\ sinceInput = 0
    /\ \E r \in Outstanding : r.text # text

\* C5: once the debounce has fired for an empty or whitespace-only text, and
\* while the text stays so, analysis is null and no warning is shown
C5_EmptyYieldsNoAnalysis ==
    (timers = {} /\ IsBlank(text)) => (analysis = Null /\ ~ showWarning)

\* C6: a request that fails with a network error or the timeout sets error,
\* clears analysis and showWarning, and ends loading
C6_FailureShowsBanner ==
    [][ \A r \in requests, kind \in FailureKinds :
          RequestFails(r, kind) =>
              /\ error' = << "Analysis failed", AxiosErrorMessage(kind) >>
              /\ error' # Null
              /\ analysis' = Null
              /\ ~ showWarning'
              /\ ~ loading' ]_vars

\* C6 witness: the banner after a timeout, over a cleared analysis
C6_Witness ==
    /\ error = << "Analysis failed", AxiosErrorMessage("timeout") >>
    /\ analysis = Null
    /\ ~ loading
    /\ edits > 0

C8_SettingsPersist ==
    (storeConfigured /\ settingsPosts = <<>> /\ ~ settingsErrorLogged)
        => savedThreshold \in { 0, threshold }

\* C9: a warning is shown only with a result, and with a result showWarning
\* is the result's should_warn
C9_WarningMatchesResult ==
    /\ showWarning => analysis # Null
    /\ analysis # Null => showWarning = analysis[1].should_warn

\* C9 witness: a result that warns is displayed with its warning
C9_Witness == analysis # Null /\ analysis[1].should_warn /\ showWarning

\* no timer, no request, not loading, and the result of the current text and
\* threshold or an error
Quiet ==
    /\ timers = {}
    /\ requests = {}
    /\ ~ loading
    /\ \/ analysis = << AnalyzeTextEndpoint(text, threshold) >>
       \/ error # Null

\* the user has made the last input, the text is not blank, and the debounce
\* of that input has not fired yet
Stopped == edits = MaxEdits /\ ~ IsBlank(text) /\ timers # {}

\* C10: after the last input, with a non-blank text, the interface comes to
\* rest with the result of the final text and threshold or with an error
C10_Settles == Stopped ~> Quiet

\* C10 witness: at rest after the last input, with the result of the final input
C10_Witness ==
    /\ edits = MaxEdits
    /\ ~ IsBlank(text)
    /\ Quiet
    /\ analysis = << AnalyzeTextEndpoint(text, threshold) >>

\* C11: Retry starts a health check and nothing else; the answer of a health
\* check sets error to null, its failure sets error to a 'Connection failed'
\* message; none of the three issues an analysis request, sets a timer or
\* changes text, threshold, analysis, showWarning or the monitoring log
C11_RetryOnlyHealth ==
    [][ /\ Retry => /\ healthChecks' = healthChecks + 1
                    /\ error' = error
        /\ HealthSucceeds => error' = Null
        /\ HealthFails => /\ error' # Null
                          /\ error'[1] = "Connection failed"
        /\ (Retry \/ healthChecks' = healthChecks - 1) =>
              /\ requests' = requests
              /\ timers' = timers
              /\ UNCHANGED << text, threshold, analysis, showWarning,
                              monitoringLogs >> ]_vars

\* C11 witness: a health check started by Retry has been answered and has
\* cleared the banner of a failed analysis, whose cleared result stays cleared
C11_Witness ==
    /\ healthChecks = 1
    /\ error = Null
    /\ analysis = Null
    /\ ~ IsBlank(text)
    /\ timers = {}
    /\ requests = {}

\* the text of a log entry as the claim states it: the first 50 characters,
\* followed by '...' exactly when the text is longer
Shown(s) ==
    IF Len(s) > LogTextLen
      THEN SubSeq(s, 1, LogTextLen) \o << ".", ".", "." >>
      ELSE s

\* C12: a response applied while monitoring is on puts exactly one entry in
\* front of the monitoring log, with the selected app, the text cut to 50
\* characters, the response's regret_score and should_warn; a failed or
\* cancelled request leaves the log as it is
C12_LogEntryPerResponse ==
    [][ \A r \in requests :
          /\ (RequestSucceeds(r) /\ isMonitoring) =>
                monitoringLogs' =
                    << [ app |-> selectedApp,
                         text |-> Shown(r.text),
                         regretScore |-> analysis'[1].regret_score,
                         warned |-> analysis'[1].should_warn ] >>
                    \o SubSeq(monitoringLogs, 1, Min(LogKeep, Len(monitoringLogs)))
          /\ ( \/ RequestCancelled(r)
               \/ \E kind \in FailureKinds : RequestFails(r, kind) ) =>
                monitoringLogs' = monitoringLogs ]_vars

\* C13: a step that adds an entry to the monitoring log is taken with
\* isMonitoring true
C13_NoLogWhileOff ==
    [][ monitoringLogs' # monitoringLogs => isMonitoring ]_vars

\* C14: loading is true exactly when an analysis request that has not been
\* aborted, or a health check, is outstanding
C14_LoadingTracksWork ==
    loading <=> (Outstanding # {} \/ healthChecks > 0)

\* C15: while the user has made no input, an error banner is cleared only by
\* the answer to a health check, which after a failed startup check is one
\* started by Retry
C15_BannerStays ==
    [][ (edits = 0 /\ error # Null /\ error' = Null) => HealthSucceeds ]_vars

\* C16: the monitoring log never holds more than 10 entries, and a step that
\* adds an entry puts it first, keeps the earlier entries in their order
\* behind it, and drops the oldest one when the log held 10
C16_LogBounded ==
    /\ [] (Len(monitoringLogs) <= LogLimit)
    /\ [][ monitoringLogs' # monitoringLogs =>
             /\ Len(monitoringLogs') = Min(LogLimit, Len(monitoringLogs) + 1)
             /\ \E r \in requests :
                   monitoringLogs'[1] = LogEntry(r, analysis'[1])
             /\ \A i \in 1 .. (Len(monitoringLogs') - 1) :
                   monitoringLogs'[i + 1] = monitoringLogs[i] ]_vars

\* C16 witness: two entries were added to a log that had become full: the
\* log holds 10 entries, the entries behind the two are the earlier ones in
\* their order, and the oldest were dropped
C16_Witness ==
    /\ Len(monitoringLogs) = LogLimit
    /\ \A i \in 3 .. LogLimit : monitoringLogs[i] = PriorLog(LogLimit)[i - 2]
    /\ edits > 0

====
